---- MODULE Spec2Model ----
(***************************************************************************)
(* Address book assistant (src/hw01.py): field validation, Record,         *)
(* AddressBook and the command loop.                                       *)
(*                                                                         *)
(* A Python str is a sequence of one-character strings.  A character that  *)
(* is not ASCII is written by its code point ("U+0663").  An exception is  *)
(* a result record whose exc field names the exception class; "None"       *)
(* means the call returned normally.                                       *)
(***************************************************************************)
EXTENDS Integers, Sequences, FiniteSets, TLC

\* ------------------------------------------------------------------ bounds
\* Longest phone list a Record may grow to.
MaxPhones == 3
\* Most phone arguments given to one add command.
MaxArgs == 2

\* ------------------------------------------------------------- characters
AsciiDigits == {"0", "1", "2", "3", "4", "5", "6", "7", "8", "9"}

\* Characters outside ASCII for which str.isdigit() is True.
UnicodeDigits == {"U+0663"}

LowerLetters ==
  <<"a", "b", "c", "d", "e", "f", "g", "h", "i", "j", "k", "l", "m",
    "n", "o", "p", "q", "r", "s", "t", "u", "v", "w", "x", "y", "z">>

UpperLetters ==
  <<"A", "B", "C", "D", "E", "F", "G", "H", "I", "J", "K", "L", "M",
    "N", "O", "P", "Q", "R", "S", "T", "U", "V", "W", "X", "Y", "Z">>

Letters == {LowerLetters[i] : i \in 1..26} \cup {UpperLetters[i] : i \in 1..26}

Whitespace == {" ", "\t"}

\* str.lower() on one character.
LowerChar(c) ==
  IF \E i \in 1..26 : UpperLetters[i] = c
  THEN LowerLetters[CHOOSE i \in 1..26 : UpperLetters[i] = c]
  ELSE c

RECURSIVE lower(_)
lower(s) == IF s = <<>> THEN <<>> ELSE <<LowerChar(Head(s))>> \o lower(Tail(s))

\* str.isalpha(): at least one character and every character a letter.
isalpha(s) == Len(s) > 0 /\ \A i \in 1..Len(s) : s[i] \in Letters

\* str.isdigit(): at least one character and every character a digit,
\* ASCII or not.
isdigit(s) == Len(s) > 0 /\ \A i \in 1..Len(s) : s[i] \in AsciiDigits \cup UnicodeDigits

\* str.split() with no separator: the maximal runs of non-whitespace.
RECURSIVE SplitFrom(_, _, _)
SplitFrom(s, cur, acc) ==
  IF s = <<>>
  THEN IF cur = <<>> THEN acc ELSE Append(acc, cur)
  ELSE IF Head(s) \in Whitespace
       THEN SplitFrom(Tail(s), <<>>, IF cur = <<>> THEN acc ELSE Append(acc, cur))
       ELSE SplitFrom(Tail(s), Append(cur, Head(s)), acc)

split(s) == SplitFrom(s, <<>>, <<>>)

\* str.strip(): drop leading and trailing whitespace.
RECURSIVE lstrip(_)
lstrip(s) == IF s # <<>> /\ Head(s) \in Whitespace THEN lstrip(Tail(s)) ELSE s

RECURSIVE rstrip(_)
rstrip(s) ==
  IF s # <<>> /\ s[Len(s)] \in Whitespace THEN rstrip(SubSeq(s, 1, Len(s) - 1)) ELSE s

strip(s) == rstrip(lstrip(s))

\* str(i) for a natural number i.
DigitChar(d) == CHOOSE c \in AsciiDigits : c = ToString(d)

RECURSIVE str(_)
str(i) == IF i < 10 THEN <<DigitChar(i)>> ELSE str(i \div 10) \o <<DigitChar(i % 10)>>

\* ------------------------------------------------------------- exceptions
NoExc == "None"

MsgName == "Name must contain only alphabetic characters."
MsgPhone == "Phone number must contain 10 digits."
MsgPhoneNotFound == "Phone number not found"

\* ----------------------------------------------------------------- fields
\* The name lower-cased and taken whatever its characters.
NameUnchecked(value) == [exc |-> NoExc, msg |-> "", value |-> lower(value)]

\* The name kept as typed.
NameAsTyped(value) ==
  IF ~isalpha(value)
  THEN [exc |-> "ValueError", msg |-> MsgName, value |-> <<>>]
  ELSE [exc |-> NoExc, msg |-> "", value |-> value]

\* Name.__init__: lower-case, then reject unless alphabetic.
Name(value) ==
  LET v == lower(value) IN
  IF ~isalpha(v)
  THEN [exc |-> "ValueError", msg |-> MsgName, value |-> <<>>]
  ELSE [exc |-> NoExc, msg |-> "", value |-> v]

\* Phone.__init__: reject unless isdigit() and of length 10.
Phone(value) ==
  IF ~isdigit(value) \/ Len(value) # 10
  THEN [exc |-> "ValueError", msg |-> MsgPhone, value |-> <<>>]
  ELSE [exc |-> NoExc, msg |-> "", value |-> value]

\* ----------------------------------------------------------------- Record
\* A Record is its name's value and the values of its Phone objects, in
\* list order.
NoRecord == [name |-> <<>>, phones |-> <<"absent">>]

\* Record.__init__
Record(name) ==
  LET n == Name(name) IN
  IF n.exc # NoExc
  THEN [exc |-> n.exc, msg |-> n.msg, rec |-> NoRecord]
  ELSE [exc |-> NoExc, msg |-> "", rec |-> [name |-> n.value, phones |-> <<>>]]

\* A phone the record already holds is not added again.
add_phoneNoDuplicates(r, phone) ==
  LET p == Phone(phone) IN
  IF p.exc # NoExc
  THEN [exc |-> p.exc, msg |-> p.msg, rec |-> r]
  ELSE IF \E i \in 1..Len(r.phones) : r.phones[i] = p.value
  THEN [exc |-> NoExc, msg |-> "", rec |-> r]
  ELSE [exc |-> NoExc, msg |-> "", rec |-> [r EXCEPT !.phones = Append(@, p.value)]]

\* The phone is appended as given.
add_phoneUnchecked(r, phone) ==
  [exc |-> NoExc, msg |-> "", rec |-> [r EXCEPT !.phones = Append(@, phone)]]

\* Record.add_phone
add_phone(r, phone) ==
  LET p == Phone(phone) IN
  IF p.exc # NoExc
  THEN [exc |-> p.exc, msg |-> p.msg, rec |-> r]
  ELSE [exc |-> NoExc, msg |-> "", rec |-> [r EXCEPT !.phones = Append(@, p.value)]]

\* Index of the last phone whose value is v.
LastIndex(phones, v) ==
  IF \E i \in 1..Len(phones) : phones[i] = v
  THEN CHOOSE i \in 1..Len(phones) :
         phones[i] = v /\ \A j \in (i + 1)..Len(phones) : phones[j] # v
  ELSE 0

\* Index of the first phone whose value is v, 0 when there is none: the
\* loop `for p in self.phones: if p.value == v`.
FirstIndex(phones, v) ==
  IF \E i \in 1..Len(phones) : phones[i] = v
  THEN CHOOSE i \in 1..Len(phones) :
         phones[i] = v /\ \A j \in 1..(i - 1) : phones[j] # v
  ELSE 0

RemoveAt(s, i) == SubSeq(s, 1, i - 1) \o SubSeq(s, i + 1, Len(s))

\* Record.remove_phone
remove_phone(r, phone) ==
  LET i == FirstIndex(r.phones, phone) IN
  IF i = 0
  THEN [exc |-> "ValueError", msg |-> MsgPhoneNotFound, rec |-> r]
  ELSE [exc |-> NoExc, msg |-> "", rec |-> [r EXCEPT !.phones = RemoveAt(@, i)]]

\* Record.edit_phone: the new value is assigned to the Phone object as is.
edit_phone(r, old_phone, new_phone) ==
  LET i == FirstIndex(r.phones, old_phone) IN
  IF i = 0
  THEN [exc |-> "ValueError", msg |-> MsgPhoneNotFound, rec |-> r]
  ELSE [exc |-> NoExc, msg |-> "", rec |-> [r EXCEPT !.phones[i] = new_phone]]

\* Record.find_phone(phone): the matching value.
find_phone(r, phone) ==
  IF FirstIndex(r.phones, phone) = 0
  THEN [exc |-> "ValueError", msg |-> MsgPhoneNotFound, value |-> <<>>]
  ELSE [exc |-> NoExc, msg |-> "", value |-> r.phones[FirstIndex(r.phones, phone)]]

\* Record.find_phone(): every value, in list order.
find_phone_all(r) == r.phones

\* ------------------------------------------------------------ AddressBook
\* The AddressBook's data: a function from key to Record.
EmptyBook == [k \in {} |-> NoRecord]

\* AddressBook.add_record: insert or overwrite under the record's name.
add_record(book_, record) ==
  [k \in DOMAIN book_ \cup {record.name} |-> IF k = record.name THEN record ELSE book_[k]]

\* AddressBook.find: dict.get, NoRecord standing for None.
find(book_, name) == IF name \in DOMAIN book_ THEN book_[name] ELSE NoRecord

\* A missing key is passed over in silence.
deleteIgnoresMissing(book_, name) ==
  [exc |-> NoExc, msg |-> "", book |-> [k \in DOMAIN book_ \ {name} |-> book_[k]]]

\* The entry is looked up and left in place.
deleteKeepsEntry(book_, name) ==
  IF name \in DOMAIN book_
  THEN [exc |-> NoExc, msg |-> "", book |-> book_]
  ELSE [exc |-> "KeyError", msg |-> "", book |-> book_]

\* AddressBook.delete: del self.data[name].
delete(book_, name) ==
  IF name \in DOMAIN book_
  THEN [exc |-> NoExc, msg |-> "", book |-> [k \in DOMAIN book_ \ {name} |-> book_[k]]]
  ELSE [exc |-> "KeyError", msg |-> "", book |-> book_]

\* --------------------------------------------------------------- messages
\* A printed or returned text: its fixed wording and the values formatted
\* into it.
Msg(t) == [text |-> t, name |-> <<>>, phones |-> <<>>, lines |-> {}]

MsgN(t, n) == [text |-> t, name |-> n, phones |-> <<>>, lines |-> {}]

MsgNP(t, n, ps) == [text |-> t, name |-> n, phones |-> ps, lines |-> {}]

NoMsg == Msg("")

MsgEnterName == "Enter name."
MsgEnterArgument == "Enter the argument for the command."
MsgInvalidCommand == "Invalid command."
MsgAddUsage == "Give me name and at least one phone number, separated by spaces."
MsgChangeTooFew == "Please provide both name and new phone number."
MsgChangeTooMany == "Please provide the contact name and the new phone number only."
MsgInvalidIndex == "Invalid phone number. Please enter a valid number."
MsgContactAdded == "Contact added."
MsgContactUpdated == "Contact updated."
MsgPhonesAdded == "Phone number(s) added to contact '{name}'."
MsgAvailable == "Available phone numbers for contact {name}:"
MsgIndexed == "{i}: {phone}"
MsgPhoneUsage == "Please provide the name of the contact or type 'phone <contact_name>'."
MsgPhoneIs == "The phone number for contact '{name}' is: {phones}."
MsgPhonesAre == "The phone numbers for contact '{name}' are: {phones}."
MsgContactNotFound == "Contact '{name}' not found."
MsgNoContacts == "No contacts found."
MsgHello == "How can I help you?"
MsgGoodBye == "Good bye!"
MsgDescribe == "Contact name: {name}, {phone_word}: {phones}"

\* Record.__str__
Record_str(r) ==
  [text |-> MsgDescribe, name |-> r.name, phones |-> r.phones,
   word |-> IF Len(r.phones) = 1 THEN "phone" ELSE "phones"]

\* ------------------------------------------------------------ input_error
\* What a handler hands back: exc/msg when it raised, ret when it returned,
\* the book as the handler left it, the lines it printed and the number of
\* input lines it read.
Outcome(e, m, r, b, pr, rd) ==
  [exc |-> e, msg |-> m, ret |-> r, book |-> b, printed |-> pr, reads |-> rd]

\* The decorator: every exception becomes a returned text.
input_error(o) ==
  CASE o.exc = NoExc -> o
    [] o.exc = "KeyError" -> [o EXCEPT !.exc = NoExc, !.msg = "", !.ret = Msg(MsgEnterName)]
    [] o.exc = "ValueError" -> [o EXCEPT !.exc = NoExc, !.msg = "", !.ret = Msg(o.msg)]
    [] o.exc = "IndexError" ->
         [o EXCEPT !.exc = NoExc, !.msg = "", !.ret = Msg(MsgEnterArgument)]
    [] OTHER -> [o EXCEPT !.exc = NoExc, !.msg = "", !.ret = Msg(MsgInvalidCommand)]

\* parse_input: parts[0] of an empty split raises IndexError.
parse_input(user_input) ==
  LET parts == split(user_input) IN
  IF parts = <<>>
  THEN [exc |-> "IndexError", cmd |-> <<>>, args |-> <<>>]
  ELSE [exc |-> NoExc, cmd |-> lower(strip(parts[1])), args |-> Tail(parts)]

\* --------------------------------------------------------------- handlers
\* `for phone in phones: record.add_phone(phone)`: stops at the first phone
\* that raises, the phones before it staying in the record.
RECURSIVE AddPhonesSkipInvalid(_, _)
AddPhonesSkipInvalid(r, phones) ==
  IF phones = <<>>
  THEN [exc |-> NoExc, msg |-> "", rec |-> r]
  ELSE AddPhonesSkipInvalid(add_phone(r, Head(phones)).rec, Tail(phones))

\* Validate every phone before adding any.
AddPhonesAllOrNothing(r, phones) ==
  IF \E i \in 1..Len(phones) : Phone(phones[i]).exc # NoExc
  THEN [exc |-> "ValueError", msg |-> MsgPhone, rec |-> r]
  ELSE AddPhonesSkipInvalid(r, phones)

RECURSIVE AddPhones(_, _)
AddPhones(r, phones) ==
  IF phones = <<>>
  THEN [exc |-> NoExc, msg |-> "", rec |-> r]
  ELSE LET a == add_phone(r, Head(phones)) IN
       IF a.exc # NoExc THEN a ELSE AddPhones(a.rec, Tail(phones))

\* One argument is taken to be enough.
AddTooFewOffByOne(args) == Len(args) < 1

\* add_contact's argument count test.
AddTooFew(args) == Len(args) < 2

\* add_contact before decoration.
add_contact_body(args, book_) ==
  IF AddTooFew(args)
  THEN Outcome("ValueError", MsgAddUsage, NoMsg, book_, <<>>, 0)
  ELSE
    LET name == args[1]
        phones == Tail(args)
        record == find(book_, name)
    IN
    IF record # NoRecord
    THEN LET a == AddPhones(record, phones)
             b == [book_ EXCEPT ![name] = a.rec]
         IN IF a.exc # NoExc
            THEN Outcome(a.exc, a.msg, NoMsg, b, <<>>, 0)
            ELSE Outcome(NoExc, "", MsgN(MsgPhonesAdded, name), b, <<>>, 0)
    ELSE LET r == Record(name) IN
         IF r.exc # NoExc
         THEN Outcome(r.exc, r.msg, NoMsg, book_, <<>>, 0)
         ELSE LET a == AddPhones(r.rec, phones) IN
              IF a.exc # NoExc
              THEN Outcome(a.exc, a.msg, NoMsg, book_, <<>>, 0)
              ELSE Outcome(NoExc, "", Msg(MsgContactAdded), add_record(book_, a.rec), <<>>, 0)

add_contact(args, book_) == input_error(add_contact_body(args, book_))

\* The keys of available_phones: str(i) for each position i, from 0.
AvailableKeys(phones) == {str(i) : i \in 0..(Len(phones) - 1)}

\* available_phones[chosen]: the 1-based position whose key is chosen.
AvailableIndex(phones, chosen) == CHOOSE i \in 1..Len(phones) : str(i - 1) = chosen

\* The lines change_contact prints before it prompts.
AvailableListing(name, phones) ==
  <<MsgN(MsgAvailable, name)>> \o
  [i \in 1..Len(phones) |-> MsgNP(MsgIndexed, str(i - 1), <<phones[i]>>)]

\* available_phones[chosen_phone] raises KeyError, which the handler's own
\* `except KeyError` turns into a returned text.
InvalidIndexPropagates(book_, listing) == Outcome("KeyError", "", NoMsg, book_, listing, 1)

InvalidIndex(book_, listing) == Outcome(NoExc, "", Msg(MsgInvalidIndex), book_, listing, 1)

\* change_contact before decoration; answer is the line the prompt reads.
change_contact_body(args, book_, answer) ==
  IF Len(args) < 2
  THEN Outcome("ValueError", MsgChangeTooFew, NoMsg, book_, <<>>, 0)
  ELSE IF Len(args) > 2
  THEN Outcome("ValueError", MsgChangeTooMany, NoMsg, book_, <<>>, 0)
  ELSE
    LET name == args[1]
        new_phone == args[2]
        record == find(book_, name)
    IN
    IF record = NoRecord
    THEN \* None has no attribute phones.
         Outcome("AttributeError", "", NoMsg, book_, <<>>, 0)
    ELSE
      LET listing == AvailableListing(name, record.phones) IN
      IF answer \notin AvailableKeys(record.phones)
      THEN InvalidIndex(book_, listing)
      ELSE
        LET old_phone == record.phones[AvailableIndex(record.phones, answer)]
            rm == remove_phone(record, old_phone)
            ad == add_phone(rm.rec, new_phone)
            b == [book_ EXCEPT ![name] = ad.rec]
        IN
        IF rm.exc # NoExc
        THEN Outcome(rm.exc, rm.msg, NoMsg, book_, listing, 1)
        ELSE IF ad.exc # NoExc
        THEN Outcome(ad.exc, ad.msg, NoMsg, b, listing, 1)
        ELSE Outcome(NoExc, "", Msg(MsgContactUpdated), b, listing, 1)

change_contact(args, book_, answer) == input_error(change_contact_body(args, book_, answer))

\* show_phone
show_phone(args, book_) ==
  input_error(
    IF Len(args) = 0
    THEN Outcome(NoExc, "", Msg(MsgPhoneUsage), book_, <<>>, 0)
    ELSE LET name == args[1]
             record == find(book_, name)
         IN IF record # NoRecord
            THEN LET phones == find_phone_all(record) IN
                 IF Len(phones) = 1
                 THEN Outcome(NoExc, "", MsgNP(MsgPhoneIs, name, phones), book_, <<>>, 0)
                 ELSE Outcome(NoExc, "", MsgNP(MsgPhonesAre, name, phones), book_, <<>>, 0)
            ELSE Outcome(NoExc, "", MsgN(MsgContactNotFound, name), book_, <<>>, 0))

\* show_all_contacts: one line per Record.  The lines are kept as a set:
\* the order of a listing is not part of the model.
show_all_contacts(book_) ==
  input_error(
    IF DOMAIN book_ # {}
    THEN Outcome(NoExc, "",
                 [text |-> "{lines}", name |-> <<>>, phones |-> <<>>,
                  lines |-> {Record_str(book_[k]) : k \in DOMAIN book_}],
                 book_, <<>>, 0)
    ELSE Outcome(NoExc, "", Msg(MsgNoContacts), book_, <<>>, 0))

T_hello == <<"h", "e", "l", "l", "o">>
T_add == <<"a", "d", "d">>
T_change == <<"c", "h", "a", "n", "g", "e">>
T_phone == <<"p", "h", "o", "n", "e">>
T_all == <<"a", "l", "l">>
T_close == <<"c", "l", "o", "s", "e">>
T_exit == <<"e", "x", "i", "t">>

\* process_input
process_input(command, args, book_, answer) ==
  input_error(
    CASE command = T_hello -> Outcome(NoExc, "", Msg(MsgHello), book_, <<>>, 0)
      [] command = T_add -> add_contact(args, book_)
      [] command = T_change -> change_contact(args, book_, answer)
      [] command = T_phone -> show_phone(args, book_)
      [] command = T_all -> show_all_contacts(book_)
      [] OTHER -> Outcome(NoExc, "", Msg(MsgInvalidCommand), book_, <<>>, 0))

\* One pass of main's loop over one input line: what is printed, the book
\* afterwards and whether the loop goes on.  An exception raised in the
\* loop body itself reaches main's decorator, which returns, ending main.
main_iteration(user_input, book_, answer) ==
  LET p == parse_input(user_input) IN
  IF p.exc # NoExc
  THEN [running |-> FALSE, book |-> book_, printed |-> <<>>, reads |-> 0,
        ret |-> input_error(Outcome(p.exc, "", NoMsg, book_, <<>>, 0)).ret]
  ELSE IF p.cmd \in {T_close, T_exit}
  THEN [running |-> FALSE, book |-> book_, printed |-> <<Msg(MsgGoodBye)>>, reads |-> 0,
        ret |-> NoMsg]
  ELSE LET o == process_input(p.cmd, p.args, book_, answer) IN
       [running |-> TRUE, book |-> o.book, printed |-> Append(o.printed, o.ret),
        reads |-> o.reads, ret |-> NoMsg]

\* ------------------------------------------------------------------ state
VARIABLES
  book,   \* the session's AddressBook
  rec,    \* a Record held on its own, outside any AddressBook
  state,  \* "Running" while main's loop reads input, then "Terminated"
  pc,     \* "ready": waiting for the next operation; "done": one has just ended
  last,   \* the operation that has just ended: its arguments and what it gave back
  prev    \* book and rec as they were before that operation

vars == <<book, rec, state, pc, last, prev>>

\* ----------------------------------------------------------------- inputs
bob == <<"b", "o", "b">>
Bob == <<"B", "o", "b">>
al == <<"a", "l">>
b0b == <<"b", "0", "b">>

Names == {bob, Bob, al, b0b}

PA == <<"0", "5", "0", "1", "2", "3", "4", "5", "6", "7">>
PB == <<"0", "6", "7", "9", "8", "7", "6", "5", "4", "3">>
PShort == <<"1", "2", "3">>
PAlpha == <<"0", "5", "0", "1", "2", "3", "4", "5", "6", "x">>
PUni == <<"U+0663", "U+0663", "U+0663", "U+0663", "U+0663",
          "U+0663", "U+0663", "U+0663", "U+0663", "U+0663">>

\* Phone arguments typed at the command line, and given to a Record.
CmdPhones == {PA, PB, PShort}
RecPhones == {PA, PB, PShort, PAlpha, PUni}

Lists(S, lo, hi) == UNION {[1..k -> S] : k \in lo..hi}

RECURSIVE Join(_)
Join(tokens) ==
  IF tokens = <<>> THEN <<>>
  ELSE IF Len(tokens) = 1 THEN tokens[1]
  ELSE tokens[1] \o <<" ">> \o Join(Tail(tokens))

Pad(line) == <<" ">> \o line \o <<"\t", " ">>

BlankLines == {<<>>, <<" ">>, <<" ", "\t">>}

HelloLines == {T_hello, Pad(<<"H", "e", "l", "l", "o">>), Join(<<T_hello, bob>>)}

CloseLines ==
  {T_close, T_exit, Pad(<<"E", "X", "I", "T">>), Join(<<<<"C", "l", "o", "s", "e">>, bob>>)}

UnknownLines ==
  {<<"q", "u", "i", "t">>, <<"c", "l", "o", "s", "e", "d">>, Join(<<bob, T_exit>>)}

AllLines == {T_all, Pad(<<"A", "L", "L">>)}

AddArgs ==
  {<<>>} \cup {<<n>> : n \in Names}
    \cup {<<n>> \o ps : n \in Names, ps \in Lists(CmdPhones, 1, MaxArgs)}

ChangeArgs ==
  {<<>>, <<bob>>, <<bob, PA, PB>>} \cup {<<n, p>> : n \in Names, p \in CmdPhones}

PhoneArgs == {<<>>, <<bob, al>>} \cup {<<n>> : n \in Names}

\* Answers typed at change's prompt.
NoAnswer == <<"(none)">>
Answers == {str(i) : i \in 0..MaxPhones} \cup {<<>>, <<"x">>, <<"0", "1">>, <<" ", "0">>}

\* ------------------------------------------------------------- operations
NoOp ==
  [op |-> "none", line |-> <<>>, answer |-> NoAnswer, name |-> <<>>, phone |-> <<>>,
   new_phone |-> <<>>, record |-> NoRecord, exc |-> NoExc, value |-> <<>>,
   printed |-> <<>>, reads |-> 0]

NoPrev == [book |-> EmptyBook, rec |-> NoRecord]

Init ==
  /\ book = EmptyBook
  /\ rec = NoRecord
  /\ state = "Running"
  /\ pc = "ready"
  /\ last = NoOp
  /\ prev = NoPrev

\* The phone list of the contact an add command names would not outgrow
\* MaxPhones.
WithinBound(args) ==
  Len(args) >= 2 =>
    (IF args[1] \in DOMAIN book THEN Len(book[args[1]].phones) ELSE 0) + Len(args) - 1
      <= MaxPhones

\* One pass of main's loop: read a line, parse it, dispatch it, print.
MainStep(line, answer) ==
  /\ state = "Running"
  /\ pc = "ready"
  /\ LET it == main_iteration(line, book, answer) IN
     /\ book' = it.book
     /\ state' = IF it.running THEN "Running" ELSE "Terminated"
     /\ last' = [NoOp EXCEPT !.op = "line", !.line = line,
                             !.answer = IF it.reads > 0 THEN answer ELSE NoAnswer,
                             !.value = it.ret.text,
                             !.printed = it.printed, !.reads = it.reads]
  /\ pc' = "done"
  /\ prev' = [book |-> book, rec |-> rec]
  /\ UNCHANGED rec

BlankLine == \E line \in BlankLines : MainStep(line, NoAnswer)

CmdCloseExit == \E line \in CloseLines : MainStep(line, NoAnswer)

CmdHello == \E line \in HelloLines : MainStep(line, NoAnswer)

CmdAdd ==
  \E args \in AddArgs : WithinBound(args) /\ MainStep(Join(<<T_add>> \o args), NoAnswer)

CmdChange ==
  \E args \in ChangeArgs, answer \in Answers : MainStep(Join(<<T_change>> \o args), answer)

CmdPhone == \E args \in PhoneArgs : MainStep(Join(<<T_phone>> \o args), NoAnswer)

CmdAll == \E line \in AllLines : MainStep(line, NoAnswer)

CmdUnknown == \E line \in UnknownLines : MainStep(line, NoAnswer)

\* The loop goes round (`while True`), or the caller of an operation goes
\* on: what is remembered of the operation that ended is dropped.
LoopBack ==
  /\ state = "Running"
  /\ pc = "done"
  /\ pc' = "ready"
  /\ last' = NoOp
  /\ prev' = NoPrev
  /\ UNCHANGED <<book, rec, state>>

\* A caller builds a Record (Record(name), then add_phone for each phone)
\* and hands it to add_record.
ApiAddRecord ==
  \E n \in Names, ps \in Lists(CmdPhones, 0, MaxArgs) :
    LET r == Record(n)
        a == AddPhones(r.rec, ps)
    IN
    /\ state = "Running"
    /\ pc = "ready"
    /\ r.exc = NoExc
    /\ a.exc = NoExc
    /\ book' = add_record(book, a.rec)
    /\ last' = [NoOp EXCEPT !.op = "add_record", !.name = n, !.record = a.rec]
    /\ pc' = "done"
    /\ prev' = [book |-> book, rec |-> rec]
    /\ UNCHANGED <<rec, state>>

ApiFind ==
  \E n \in Names :
    /\ state = "Running"
    /\ pc = "ready"
    /\ last' = [NoOp EXCEPT !.op = "find", !.name = n, !.record = find(book, n)]
    /\ pc' = "done"
    /\ prev' = [book |-> book, rec |-> rec]
    /\ UNCHANGED <<book, rec, state>>

ApiDelete ==
  \E n \in Names :
    LET d == delete(book, n) IN
    /\ state = "Running"
    /\ pc = "ready"
    /\ book' = d.book
    /\ last' = [NoOp EXCEPT !.op = "delete", !.name = n, !.exc = d.exc]
    /\ pc' = "done"
    /\ prev' = [book |-> book, rec |-> rec]
    /\ UNCHANGED <<rec, state>>

Next ==
  \/ BlankLine
  \/ CmdCloseExit
  \/ CmdHello
  \/ CmdAdd
  \/ CmdChange
  \/ CmdPhone
  \/ CmdAll
  \/ CmdUnknown
  \/ LoopBack
  \/ ApiAddRecord
  \/ ApiFind
  \/ ApiDelete

\* The command loop together with direct calls on its AddressBook.
Spec == Init /\ [][Next]_vars

\* ------------------------------------------------- Record, on its own
RecNew ==
  \E n \in Names :
    LET r == Record(n) IN
    /\ pc = "ready"
    /\ state = "Running"
    /\ rec' = IF r.exc = NoExc THEN r.rec ELSE rec
    /\ last' = [NoOp EXCEPT !.op = "Record", !.name = n, !.exc = r.exc]
    /\ pc' = "done"
    /\ prev' = [book |-> book, rec |-> rec]
    /\ UNCHANGED <<book, state>>

RecAddPhone ==
  \E p \in RecPhones :
    LET a == add_phone(rec, p) IN
    /\ pc = "ready"
    /\ rec # NoRecord
    /\ Len(rec.phones) < MaxPhones
    /\ rec' = a.rec
    /\ last' = [NoOp EXCEPT !.op = "add_phone", !.phone = p, !.exc = a.exc]
    /\ pc' = "done"
    /\ prev' = [book |-> book, rec |-> rec]
    /\ UNCHANGED <<book, state>>

RecRemovePhone ==
  \E p \in RecPhones :
    LET a == remove_phone(rec, p) IN
    /\ pc = "ready"
    /\ rec # NoRecord
    /\ rec' = a.rec
    /\ last' = [NoOp EXCEPT !.op = "remove_phone", !.phone = p, !.exc = a.exc,
                            !.value = a.msg]
    /\ pc' = "done"
    /\ prev' = [book |-> book, rec |-> rec]
    /\ UNCHANGED <<book, state>>

RecEditPhone ==
  \E p \in RecPhones, q \in RecPhones :
    LET a == edit_phone(rec, p, q) IN
    /\ pc = "ready"
    /\ rec # NoRecord
    /\ rec' = a.rec
    /\ last' = [NoOp EXCEPT !.op = "edit_phone", !.phone = p, !.new_phone = q,
                            !.exc = a.exc]
    /\ pc' = "done"
    /\ prev' = [book |-> book, rec |-> rec]
    /\ UNCHANGED <<book, state>>

RecFindPhone ==
  \E p \in RecPhones :
    LET f == find_phone(rec, p) IN
    /\ pc = "ready"
    /\ rec # NoRecord
    /\ last' = [NoOp EXCEPT !.op = "find_phone", !.phone = p, !.exc = f.exc,
                            !.value = f.value]
    /\ pc' = "done"
    /\ prev' = [book |-> book, rec |-> rec]
    /\ UNCHANGED <<book, rec, state>>

RecFindAll ==
  /\ pc = "ready"
  /\ rec # NoRecord
  /\ last' = [NoOp EXCEPT !.op = "find_phone()", !.printed = find_phone_all(rec)]
  /\ pc' = "done"
  /\ prev' = [book |-> book, rec |-> rec]
  /\ UNCHANGED <<book, rec, state>>

NextRecord ==
  \/ RecNew
  \/ RecAddPhone
  \/ RecRemovePhone
  \/ RecEditPhone
  \/ RecFindPhone
  \/ RecFindAll
  \/ LoopBack

\* Calls on one Record that is in no AddressBook.
SpecRecord == Init /\ [][NextRecord]_vars

\* --------------------------------------------- the command loop, alone
\* Argument lists of add and change over a set P of phone arguments.
AddArgsOver(P) ==
  {<<>>} \cup {<<n>> : n \in Names} \cup {<<n>> \o ps : n \in Names, ps \in Lists(P, 1, MaxArgs)}

ChangeArgsOver(P) == {<<>>, <<bob>>, <<bob, PA, PA>>} \cup {<<n, p>> : n \in Names, p \in P}

\* Phones typed in a session in which some are written in non-ASCII digits.
CliPhones == {PA, PUni, PShort}

CliAdd ==
  \E args \in AddArgsOver(CliPhones) :
    WithinBound(args) /\ MainStep(Join(<<T_add>> \o args), NoAnswer)

CliChange ==
  \E args \in ChangeArgsOver(CliPhones), answer \in Answers :
    MainStep(Join(<<T_change>> \o args), answer)

NextCLI ==
  \/ BlankLine
  \/ CmdCloseExit
  \/ CmdHello
  \/ CliAdd
  \/ CliChange
  \/ CmdPhone
  \/ CmdAll
  \/ CmdUnknown
  \/ LoopBack

\* Nothing but command lines typed at the prompt.
SpecCLI == Init /\ [][NextCLI]_vars

\* ------------------------- the command loop and the Records of its book
\* Phones given where Records of the book are also edited directly.
EntryPhones == {PA, PShort}

EntAdd ==
  \E args \in AddArgsOver(EntryPhones) :
    WithinBound(args) /\ MainStep(Join(<<T_add>> \o args), NoAnswer)

EntChange ==
  \E args \in ChangeArgsOver(EntryPhones), answer \in Answers :
    MainStep(Join(<<T_change>> \o args), answer)

\* A caller constructs Record(name) and, unless that raised, hands it to
\* add_record.
ApiNewRecord ==
  \E n \in Names \cup {<<>>} :
    LET r == Record(n) IN
    /\ state = "Running"
    /\ pc = "ready"
    /\ book' = IF r.exc = NoExc THEN add_record(book, r.rec) ELSE book
    /\ last' = [NoOp EXCEPT !.op = "Record", !.name = n, !.exc = r.exc, !.record = r.rec]
    /\ pc' = "done"
    /\ prev' = [book |-> book, rec |-> rec]
    /\ UNCHANGED <<rec, state>>

\* A caller's method call on the Record that find(k) returned has given
\* back a; the Record in the book is the one the call changed.
EntryCall(k, op, p, q, a) ==
  /\ state = "Running"
  /\ pc = "ready"
  /\ book' = [book EXCEPT ![k] = a.rec]
  /\ last' = [NoOp EXCEPT !.op = op, !.name = k, !.phone = p, !.new_phone = q,
                          !.exc = a.exc]
  /\ pc' = "done"
  /\ prev' = [book |-> book, rec |-> rec]
  /\ UNCHANGED <<rec, state>>

EntryAddPhone ==
  \E k \in DOMAIN book, p \in EntryPhones :
    /\ Len(book[k].phones) < MaxPhones
    /\ EntryCall(k, "add_phone", p, <<>>, add_phone(book[k], p))

EntryRemovePhone ==
  \E k \in DOMAIN book, p \in EntryPhones :
    EntryCall(k, "remove_phone", p, <<>>, remove_phone(book[k], p))

EntryEditPhone ==
  \E k \in DOMAIN book, p \in EntryPhones, q \in EntryPhones :
    EntryCall(k, "edit_phone", p, q, edit_phone(book[k], p, q))

EntryFindPhone ==
  \E k \in DOMAIN book, p \in EntryPhones :
    LET f == find_phone(book[k], p) IN
    EntryCall(k, "find_phone", p, <<>>, [exc |-> f.exc, msg |-> f.msg, rec |-> book[k]])

NextEntries ==
  \/ BlankLine
  \/ CmdCloseExit
  \/ CmdHello
  \/ EntAdd
  \/ EntChange
  \/ CmdPhone
  \/ CmdAll
  \/ CmdUnknown
  \/ LoopBack
  \/ ApiNewRecord
  \/ EntryAddPhone
  \/ EntryRemovePhone
  \/ EntryEditPhone
  \/ EntryFindPhone

\* Command lines, and method calls on the Records the book holds.
SpecEntries == Init /\ [][NextEntries]_vars

\* ================================================================= claims
\* What the latest command line parsed to, and what it answered.
Done(op) == pc = "done" /\ last.op = op

LineCmd == parse_input(last.line).cmd

LineArgs == parse_input(last.line).args

IsCommand(c) == Done("line") /\ parse_input(last.line).exc = NoExc /\ LineCmd = c

Reply == last.printed[Len(last.printed)]

Valid(p) == Phone(p).exc = NoExc

IsPrefix(s, t) == Len(s) <= Len(t) /\ SubSeq(t, 1, Len(s)) = s

\* Every entry of b other than key k is in c, unchanged, and c has no
\* further key but possibly k.
SameExcept(b, c, k) ==
  /\ DOMAIN c \ {k} = DOMAIN b \ {k}
  /\ \A j \in DOMAIN b \ {k} : c[j] = b[j]

\* ------------------------------------------------------------------- C1
\* C1: the command loop leaves the Running state if and only if the first
\* token of the line, lower-cased, is close or exit; no other line, an
\* empty or whitespace-only one included, ends the session.
FirstTokenIsCloseExit(line) ==
  LET parts == split(line) IN parts # <<>> /\ lower(parts[1]) \in {T_close, T_exit}

C1_OnlyCloseExitTerminates ==
  Done("line") => (state = "Terminated" <=> FirstTokenIsCloseExit(last.line))

\* ------------------------------------------------------------------- C2
\* Ten characters, each a digit (in the widest sense, that of isdigit).
TenDigits(p) == Len(p) = 10 /\ \A i \in 1..Len(p) : p[i] \in AsciiDigits \cup UnicodeDigits

\* C2: after any sequence of add_phone, remove_phone, edit_phone and
\* find_phone calls, every phone value held by the Record is a string of
\* exactly 10 digits.
C2_RecordPhonesTenDigits ==
  rec # NoRecord => \A i \in 1..Len(rec.phones) : TenDigits(rec.phones[i])

\* ------------------------------------------------------------------- C3
\* C3: an add command whose name, lower-cased, is the key of an existing
\* Record appends the given phones to that Record, so that every phone it
\* held before is still held afterwards, whatever the casing of the name.
C3_AddAppendsForAnyCasing ==
  (IsCommand(T_add) /\ Len(LineArgs) >= 2 /\ lower(LineArgs[1]) \in DOMAIN prev.book) =>
    LET k == lower(LineArgs[1]) IN
    /\ k \in DOMAIN book
    /\ IsPrefix(prev.book[k].phones, book[k].phones)
    /\ (\A i \in 2..Len(LineArgs) : Valid(LineArgs[i])) =>
         book[k].phones = prev.book[k].phones \o Tail(LineArgs)

\* ------------------------------------------------------------------- C4
\* C4: in every state reached by add_record, delete and the dispatcher's
\* commands, each entry of the AddressBook is stored under the normalized
\* (lower-cased) name of the Record it maps to.
C4_KeyIsRecordName ==
  \A k \in DOMAIN book : k = book[k].name /\ k = lower(book[k].name)

C4_Witness ==
  /\ pc = "done"
  /\ last.op \in {"line", "add_record"}
  /\ Cardinality(DOMAIN book) = 2
  /\ book # prev.book
  /\ \E k \in DOMAIN book : Len(book[k].phones) > 0

\* ------------------------------------------------------------------- C5
\* The position (from 1) that the answer to change's prompt selects.
Selected(phones, answer) == CHOOSE i \in 1..Len(phones) : str(i - 1) = answer

IsIndex(phones, answer) == \E i \in 1..Len(phones) : str(i - 1) = answer

ChangeReachedPrompt ==
  /\ IsCommand(T_change)
  /\ Len(LineArgs) = 2
  /\ LineArgs[1] \in DOMAIN prev.book
  /\ last.reads = 1

\* C5: a change command whose answer is a valid index i removes the phone
\* at position i, the others keeping their order, and adds newPhone, also
\* when the phone sequence holds duplicates.  (Stated for a newPhone that
\* passes validation.)
C5_ChangeRemovesSelectedPosition ==
  (ChangeReachedPrompt /\ IsIndex(prev.book[LineArgs[1]].phones, last.answer)
     /\ Valid(LineArgs[2])) =>
    LET k == LineArgs[1]
        old == prev.book[k].phones
    IN book[k].phones = Append(RemoveAt(old, Selected(old, last.answer)), LineArgs[2])

\* ------------------------------------------------------------------- C6
\* C6: a change command for a name with no Record reports a missing-key
\* message, not the generic invalid-command one, and leaves the
\* AddressBook unchanged.
C6_ChangeUnknownReportsMissingKey ==
  (IsCommand(T_change) /\ Len(LineArgs) = 2 /\ LineArgs[1] \notin DOMAIN prev.book) =>
    /\ Reply.text \in {MsgEnterName, MsgContactNotFound}
    /\ Reply.text # MsgInvalidCommand
    /\ book = prev.book

\* ------------------------------------------------------------------- C7
\* C7: a change command whose answer is not the index of one of the
\* contact's phones yields the "invalid phone number" message, leaves the
\* AddressBook unchanged and keeps the session Running.
C7_InvalidIndexLeavesBook ==
  (ChangeReachedPrompt /\ ~IsIndex(prev.book[LineArgs[1]].phones, last.answer)) =>
    /\ Reply.text = MsgInvalidIndex
    /\ book = prev.book
    /\ state = "Running"

C7_Witness ==
  /\ ChangeReachedPrompt
  /\ ~IsIndex(prev.book[LineArgs[1]].phones, last.answer)
  /\ Len(prev.book[LineArgs[1]].phones) = 2
  /\ last.answer = str(2)

\* ------------------------------------------------------------------- C8
\* C8: an add command for a name with no Record, one of whose phones fails
\* validation, reports the validation error and creates no contact: the
\* AddressBook is the same afterwards as before.
AddNewWithInvalidPhone ==
  /\ IsCommand(T_add)
  /\ Len(LineArgs) >= 2
  /\ LineArgs[1] \notin DOMAIN prev.book
  /\ \E i \in 2..Len(LineArgs) : ~Valid(LineArgs[i])

C8_FailedAddCreatesNothing ==
  AddNewWithInvalidPhone =>
    /\ Reply.text \in {MsgPhone, MsgName}
    /\ Name(LineArgs[1]).exc = NoExc => Reply.text = MsgPhone
    /\ book = prev.book

C8_Witness ==
  /\ AddNewWithInvalidPhone
  /\ Name(LineArgs[1]).exc = NoExc
  /\ lower(LineArgs[1]) \notin DOMAIN prev.book
  /\ Valid(LineArgs[2])
  /\ DOMAIN prev.book # {}

\* ------------------------------------------------------------------- C9
\* Position in args of the first phone that fails validation.
FirstInvalid(args) ==
  CHOOSE i \in 2..Len(args) : ~Valid(args[i]) /\ \A j \in 2..(i - 1) : Valid(args[j])

AddExistingWithInvalidPhone ==
  /\ IsCommand(T_add)
  /\ Len(LineArgs) >= 2
  /\ LineArgs[1] \in DOMAIN prev.book
  /\ \E i \in 2..Len(LineArgs) : ~Valid(LineArgs[i])

\* C9: an add command for an existing contact (the name as typed is a key)
\* in which pi is the first phone failing validation reports that error
\* and leaves the contact's phones equal to the previous phones followed
\* by exactly p1 .. p(i-1); none of pi .. pk is added.
C9_PartialAddKeepsPrefix ==
  AddExistingWithInvalidPhone =>
    LET k == LineArgs[1] IN
    /\ Reply.text = MsgPhone
    /\ k \in DOMAIN book
    /\ book[k].phones =
         prev.book[k].phones \o SubSeq(LineArgs, 2, FirstInvalid(LineArgs) - 1)
    /\ book[k].name = prev.book[k].name
    /\ SameExcept(prev.book, book, k)

C9_Witness ==
  /\ AddExistingWithInvalidPhone
  /\ FirstInvalid(LineArgs) = 3
  /\ Len(prev.book[LineArgs[1]].phones) > 0
  /\ Cardinality(DOMAIN prev.book) = 2

C9_WitnessLaterPhoneDropped ==
  /\ AddExistingWithInvalidPhone
  /\ FirstInvalid(LineArgs) = 2
  /\ Len(LineArgs) = 3
  /\ Valid(LineArgs[3])

\* ------------------------------------------------------------------ C10
\* C10: after add_record(r), find of r's name returns r; after a delete of
\* that name, find of it returns absent; the add and the delete leave
\* every other entry of the AddressBook unchanged.
C10_AddFindDeleteRoundTrip ==
  /\ Done("add_record") =>
       /\ find(book, last.record.name) = last.record
       /\ SameExcept(prev.book, book, last.record.name)
  /\ (Done("delete") /\ last.name \in DOMAIN prev.book) =>
       /\ last.exc = NoExc
       /\ find(book, last.name) = NoRecord
       /\ SameExcept(prev.book, book, last.name)

C10_Witness ==
  /\ Done("delete")
  /\ last.name \in DOMAIN prev.book
  /\ Len(prev.book[last.name].phones) > 0
  /\ DOMAIN book # {}

C10_WitnessOverwrite ==
  /\ Done("add_record")
  /\ last.record.name \in DOMAIN prev.book
  /\ prev.book[last.record.name] # last.record
  /\ Cardinality(DOMAIN book) = 2

\* ------------------------------------------------------------------ C11
\* C11: delete(name) for a name that is not a key of the AddressBook fails
\* with a missing-key error (KeyError) and leaves the AddressBook
\* unchanged.
C11_DeleteMissingFails ==
  (Done("delete") /\ last.name \notin DOMAIN prev.book) =>
    /\ last.exc = "KeyError"
    /\ book = prev.book

C11_Witness ==
  /\ Done("delete")
  /\ last.name \notin DOMAIN prev.book
  /\ lower(last.name) \in DOMAIN prev.book
  /\ Cardinality(DOMAIN prev.book) = 2

\* ------------------------------------------------------------------ C12
TenAsciiDigits(p) == Len(p) = 10 /\ \A i \in 1..Len(p) : p[i] \in AsciiDigits

\* C12: Phone construction succeeds if and only if the raw string is
\* exactly 10 ASCII decimal digits; every other string, one made of
\* non-ASCII digit characters included, fails with the invalid-format
\* error.
C12_PhoneIffTenAsciiDigits ==
  Done("add_phone") =>
    /\ last.exc = NoExc <=> TenAsciiDigits(last.phone)
    /\ last.exc # NoExc => last.exc = "ValueError"

\* ------------------------------------------------------------------ C14
Holds(phones, p) == \E i \in 1..Len(phones) : phones[i] = p

\* t is s without its element at position i.
Without(s, t, i) ==
  /\ Len(t) = Len(s) - 1
  /\ \A j \in 1..(i - 1) : t[j] = s[j]
  /\ \A j \in i..Len(t) : t[j] = s[j + 1]

\* C14: remove_phone(phone) removes exactly the first element whose value
\* equals phone, every other element and their order staying as they
\* were; when no element matches, an empty Record included, it fails with
\* "Phone number not found" and the sequence is unchanged.
C14_RemoveFirstMatch ==
  Done("remove_phone") =>
    LET old == prev.rec.phones
        p == last.phone
    IN
    /\ rec.name = prev.rec.name
    /\ Holds(old, p) =>
         /\ last.exc = NoExc
         /\ \E i \in 1..Len(old) :
              /\ old[i] = p
              /\ \A j \in 1..(i - 1) : old[j] # p
              /\ Without(old, rec.phones, i)
    /\ ~Holds(old, p) =>
         /\ last.exc = "ValueError"
         /\ last.value = MsgPhoneNotFound
         /\ rec.phones = old

C14_Witness ==
  /\ Done("remove_phone")
  /\ Len(prev.rec.phones) = 3
  /\ prev.rec.phones[1] = last.phone
  /\ prev.rec.phones[3] = last.phone
  /\ prev.rec.phones[2] # last.phone

C14_WitnessEmpty ==
  /\ Done("remove_phone")
  /\ prev.rec.phones = <<>>
  /\ last.exc = "ValueError"

\* ------------------------------------------------------------------ C15
\* C15: on a Record, each add_phone call that passes validation appends
\* its value at the end (call order, duplicates kept) and each call that
\* fails leaves the sequence unchanged, so that find_phone() returns
\* exactly the values of the calls that passed, in call order; and
\* find_phone(p) returns p for every p the Record holds.
C15_AddThenFind ==
  /\ Done("Record") /\ last.exc = NoExc => rec.phones = <<>>
  /\ Done("add_phone") =>
       /\ Valid(last.phone) <=> last.exc = NoExc
       /\ last.exc = NoExc => rec.phones = Append(prev.rec.phones, last.phone)
       /\ last.exc # NoExc => rec.phones = prev.rec.phones
  /\ Done("find_phone()") => last.printed = rec.phones /\ rec = prev.rec
  /\ (Done("find_phone") /\ Holds(rec.phones, last.phone)) =>
       /\ last.exc = NoExc
       /\ last.value = last.phone
       /\ rec = prev.rec

C15_Witness ==
  /\ Done("add_phone")
  /\ last.exc = NoExc
  /\ Holds(prev.rec.phones, last.phone)
  /\ Len(rec.phones) = 3
  /\ rec.phones[1] # rec.phones[2]

C15_WitnessRejected ==
  /\ Done("add_phone")
  /\ last.exc # NoExc
  /\ Len(last.phone) = 10
  /\ Len(prev.rec.phones) = 2

\* ------------------------------------------------------------------ C17
\* C17: a change command is all-or-nothing: whenever it does not answer
\* "Contact updated." the AddressBook and every Record's phone sequence
\* are the same after the command as before it.
C17_ChangeAllOrNothing ==
  (IsCommand(T_change) /\ Reply.text # MsgContactUpdated) => book = prev.book

\* ------------------------------------------------------------------ C18
Recognized == {T_hello, T_add, T_change, T_phone, T_all, T_close, T_exit}

\* The latest line was one of the commands that only report.
ReportingCommand ==
  /\ Done("line")
  /\ parse_input(last.line).exc = NoExc
  /\ \/ LineCmd \in {T_hello, T_phone, T_all}
     \/ LineCmd \notin Recognized
     \/ LineCmd = T_add /\ Len(LineArgs) < 2
     \/ LineCmd = T_change /\ Len(LineArgs) # 2

\* C18: hello, phone, all, every unrecognized command, add with fewer
\* than 2 arguments and change with an argument count other than 2 leave
\* the AddressBook unchanged and read no further input line.
C18_ReportingCommandsChangeNothing ==
  ReportingCommand => book = prev.book /\ last.reads = 0

C18_Witness ==
  /\ ReportingCommand
  /\ LineCmd = T_add
  /\ Len(LineArgs) = 1
  /\ Name(LineArgs[1]).exc = NoExc
  /\ LineArgs[1] \notin DOMAIN book
  /\ DOMAIN book # {}

C18_WitnessChange ==
  /\ ReportingCommand
  /\ LineCmd = T_change
  /\ Len(LineArgs) = 3
  /\ LineArgs[1] \in DOMAIN book
  /\ Len(book[LineArgs[1]].phones) > 0

C18_WitnessUnknown ==
  /\ ReportingCommand
  /\ LineCmd \notin Recognized
  /\ DOMAIN book # {}

\* ------------------------------------------------------------------ C16
\* C16: after any sequence of dispatcher commands alone, every phone
\* stored in any Record of the AddressBook is exactly 10 digits (digits
\* in the sense of C2); in particular change never stores a newPhone that
\* is not.
C16_DispatcherStoresTenDigits ==
  /\ \A k \in DOMAIN book : \A i \in 1..Len(book[k].phones) : TenDigits(book[k].phones[i])
  /\ (IsCommand(T_change) /\ Len(LineArgs) = 2 /\ ~TenDigits(LineArgs[2])) =>
       \A k \in DOMAIN book : ~Holds(book[k].phones, LineArgs[2])

C16_Witness ==
  /\ IsCommand(T_change)
  /\ Len(LineArgs) = 2
  /\ ~TenDigits(LineArgs[2])
  /\ last.reads = 1
  /\ IsIndex(prev.book[LineArgs[1]].phones, last.answer)
  /\ Len(book[LineArgs[1]].phones) > 0

C16_WitnessUpdated ==
  /\ IsCommand(T_change)
  /\ Reply.text = MsgContactUpdated
  /\ Len(book[LineArgs[1]].phones) = 3
  /\ ~TenAsciiDigits(LineArgs[2])

\* ------------------------------------------------------------------ C13
NameOK(n) == Len(n) > 0 /\ n = lower(n) /\ \A i \in 1..Len(n) : n[i] \in Letters

\* C13: in every reachable state every Record's name is a non-empty,
\* lower-cased, alphabetic-only string, and neither a Record operation
\* nor a dispatcher command changes the name of an existing Record.
C13_NamesValidAndFixed ==
  /\ \A k \in DOMAIN book : NameOK(book[k].name)
  /\ pc = "done" =>
       \A k \in DOMAIN prev.book :
         /\ k \in DOMAIN book
         /\ book[k].name = prev.book[k].name

C13_Witness ==
  /\ IsCommand(T_add)
  /\ Len(LineArgs) >= 2
  /\ LineArgs[1] = Bob
  /\ bob \notin DOMAIN prev.book
  /\ bob \in DOMAIN book
  /\ DOMAIN prev.book # {}

C13_WitnessEdit ==
  /\ Done("edit_phone")
  /\ last.exc = NoExc
  /\ book # prev.book
  /\ Cardinality(DOMAIN book) = 2

C13_WitnessEmptyName ==
  /\ Done("Record")
  /\ last.name = <<>>
  /\ last.exc = "ValueError"
  /\ DOMAIN book # {}

====
